---- MODULE Spec2Model ----
(***************************************************************************)
(* Model of src/Datos.py: the memoized loader load_data() and the render   *)
(* cycle of the dashboard script that calls it.                             *)
(*                                                                          *)
(* Time is counted in whole seconds.  Sensor readings are kept in           *)
(* hundredths (3.3 V is 330).  One run of the script is taken to execute at *)
(* one instant: the clock advances between runs.                            *)
(***************************************************************************)
EXTENDS Integers, Sequences, FiniteSets, TLC

VARIABLES
  clock,        \* wall clock, seconds
  cache,        \* the single slot of st.cache_data for load_data()
  pc,           \* position of the script run: idle, load, render, sidebar
  cause,        \* what started the current run: start, press, rerun
  df,           \* the script's global df (line 63)
  fetched,      \* whether the last load_data() call executed its body
  sheet,        \* what the remote sheet held when the body last read it
  err,          \* the exception caught by the body's last execution
  view,         \* what the current run has rendered
  buttonShown   \* whether the last run rendered the refresh button

vars == <<clock, cache, pc, cause, df, fetched, sheet, err, view, buttonShown>>

----------------------------------------------------------------------------
(* Bounds and program constants *)

MaxRows == 2
MaxClock == 600

TTL == 300
FreqSeconds == 10
DaySeconds == 86400

TickStep == TTL \div 2

----------------------------------------------------------------------------
(* Cell values *)

Str(s) == [k |-> "str", s |-> s, n |-> 0]
Num(n) == [k |-> "num", s |-> "", n |-> n]
Ts(n) == [k |-> "ts", s |-> "", n |-> n]
NaT == [k |-> "nat", s |-> "", n |-> 0]

Range(q) == {q[i] : i \in 1..Len(q)}

----------------------------------------------------------------------------
(* The remote sheet: a header row and data rows *)

ColOrder == <<"FechaHora", "Timestamp", "Voltaje", "Temperatura", "Humedad">>

FechaStrs == <<"2024-01-01 10:00:00", "2024-01-01 10:00:10",
               "2024-01-01 10:00:20", "2024-01-01 10:00:30">>

TimestampStr == "2024-01-02 00:00:00"

GoodCell(c, i) ==
  CASE c = "FechaHora" -> Str(FechaStrs[((i - 1) % Len(FechaStrs)) + 1])
    [] c = "Timestamp" -> Str(TimestampStr)
    [] c = "Voltaje" -> Num(330 - 10 * (i - 1))
    [] c = "Temperatura" -> Num(2550 + 10 * (i - 1))
    [] OTHER -> Num(6000 - 20 * (i - 1))

BadCells == {Str(""), Str("abc")}

NoDefect == [row |-> 0, col |-> "", cell |-> Str("")]

Defects(S, n) ==
  {NoDefect} \cup {[row |-> i, col |-> c, cell |-> b] :
                     i \in 1..n, c \in S, b \in BadCells}

MkSheet(S, n, d) ==
  [header |-> SelectSeq(ColOrder, LAMBDA c : c \in S),
   rows |-> [i \in 1..n |->
              [c \in S |-> IF d.row = i /\ d.col = c THEN d.cell
                           ELSE GoodCell(c, i)]]]

TimeCols == {"FechaHora", "Timestamp"}

SensorCols == {"Voltaje", "Temperatura", "Humedad"}

SheetsOver(S, D) ==
  UNION {{MkSheet(S, n, d) : d \in Defects(D, n)} : n \in 0..MaxRows}

Sheets ==
  {MkSheet({}, 0, NoDefect)}
  \cup UNION {SheetsOver(T \cup {"Voltaje"}, T) : T \in SUBSET TimeCols}
  \cup UNION {SheetsOver({"FechaHora"} \cup S, S) : S \in SUBSET SensorCols}

NoSheet == [header |-> <<>>, rows |-> <<>>]

----------------------------------------------------------------------------
(* Data frames *)

EmptyDF == [cols |-> <<>>, rows |-> <<>>]

Unbound == [cols |-> <<"?">>, rows |-> <<>>]

HasCol(d, c) == c \in Range(d.cols)

Column(d, c) == [i \in 1..Len(d.rows) |-> d.rows[i][c]]

IsEmptyNoColumns(d) == Len(d.cols) = 0

IsEmpty(d) == Len(d.rows) = 0 \/ Len(d.cols) = 0

GetAllRecords(sh) ==
  [keys |-> IF Len(sh.rows) = 0 THEN <<>> ELSE sh.header, dicts |-> sh.rows]

DataFrame(records) == [cols |-> records.keys, rows |-> records.dicts]

SetCol(d, c, vals) ==
  LET cols2 == IF HasCol(d, c) THEN d.cols ELSE Append(d.cols, c)
  IN [cols |-> cols2,
      rows |-> [i \in 1..Len(d.rows) |->
                 [x \in Range(cols2) |-> IF x = c THEN vals[i]
                                         ELSE d.rows[i][x]]]]

----------------------------------------------------------------------------
(* pd.to_datetime on a column of text cells, and pd.date_range *)

Epoch(s) ==
  CASE s = "2024-01-01 10:00:00" -> 1704103200
    [] s = "2024-01-01 10:00:10" -> 1704103210
    [] s = "2024-01-01 10:00:20" -> 1704103220
    [] s = "2024-01-01 10:00:30" -> 1704103230
    [] s = "2024-01-02 00:00:00" -> 1704153600
    [] OTHER -> -1

Unparseable(c) == c.k = "str" /\ c.s # "" /\ Epoch(c.s) < 0

ParseCell(c) ==
  IF c.k # "str" THEN c
  ELSE IF c.s = "" THEN NaT
  ELSE Ts(Epoch(c.s))

ToDatetime(cells) ==
  IF \E i \in 1..Len(cells) : Unparseable(cells[i])
  THEN [ok |-> FALSE, vals |-> <<>>]
  ELSE [ok |-> TRUE, vals |-> [i \in 1..Len(cells) |-> ParseCell(cells[i])]]

DateRangeConstant(start, periods, freq) ==
  [i \in 1..periods |-> Ts(start)]

DateRange(start, periods, freq) ==
  [i \in 1..periods |-> Ts(start + (i - 1) * freq)]

----------------------------------------------------------------------------
(* load_data(): the body inside try, the except clause, the memo *)

EarlyFails == {"credentials", "authorize", "open", "records"}

Attempts ==
  {[sh |-> NoSheet, failAt |-> f] : f \in EarlyFails}
  \cup {[sh |-> s, failAt |-> f] : s \in Sheets, f \in {"none", "frame"}}

SynthStartAtNow(now) == now

SynthStart(now) == now - DaySeconds

ResolveTimestampFirst(d, now) ==
  IF HasCol(d, "Timestamp") THEN
    LET p == ToDatetime(Column(d, "Timestamp"))
    IN IF p.ok THEN [err |-> "none", df |-> SetCol(d, "FechaHora", p.vals)]
       ELSE [err |-> "to_datetime", df |-> d]
  ELSE IF HasCol(d, "FechaHora") THEN
    LET p == ToDatetime(Column(d, "FechaHora"))
    IN IF p.ok THEN [err |-> "none", df |-> SetCol(d, "FechaHora", p.vals)]
       ELSE [err |-> "to_datetime", df |-> d]
  ELSE
    [err |-> "none",
     df |-> SetCol(d, "FechaHora",
                   DateRange(now - DaySeconds, Len(d.rows), FreqSeconds))]

ResolveTimestamps(d, now) ==
  IF HasCol(d, "FechaHora") THEN
    LET p == ToDatetime(Column(d, "FechaHora"))
    IN IF p.ok THEN [err |-> "none", df |-> SetCol(d, "FechaHora", p.vals)]
       ELSE [err |-> "to_datetime", df |-> d]
  ELSE IF HasCol(d, "Timestamp") THEN
    LET p == ToDatetime(Column(d, "Timestamp"))
    IN IF p.ok THEN [err |-> "none", df |-> SetCol(d, "FechaHora", p.vals)]
       ELSE [err |-> "to_datetime", df |-> d]
  ELSE
    [err |-> "none",
     df |-> SetCol(d, "FechaHora",
                   DateRange(SynthStart(now), Len(d.rows), FreqSeconds))]

TryBody(sh, failAt, now) ==
  IF failAt \in EarlyFails
  THEN [err |-> failAt, df |-> Unbound, read |-> NoSheet]
  ELSE IF failAt = "frame"
  THEN [err |-> failAt, df |-> Unbound, read |-> sh]
  ELSE LET r == ResolveTimestamps(DataFrame(GetAllRecords(sh)), now)
       IN [err |-> r.err, df |-> r.df, read |-> sh]

ExceptClausePartial(r) ==
  [exc |-> "none", value |-> IF r.df = Unbound THEN EmptyDF ELSE r.df,
   err |-> r.err, read |-> r.read]

ExceptClause(r) ==
  IF r.err # "none"
  THEN [exc |-> "none", value |-> EmptyDF, err |-> r.err, read |-> r.read]
  ELSE [exc |-> "none", value |-> r.df, err |-> "none", read |-> r.read]

load_data(sh, failAt, now) == ExceptClause(TryBody(sh, failAt, now))

NoEntry == [present |-> FALSE, value |-> EmptyDF, stored |-> 0]

ExpiredEarly(entry, now) == now - entry.stored >= TTL \div 2

Expired(entry, now) == now - entry.stored >= TTL

Hit(entry, now) == entry.present /\ ~Expired(entry, now)

StoreUnlessEmpty(value, now) ==
  IF Len(value.rows) = 0 THEN NoEntry
  ELSE [present |-> TRUE, value |-> value, stored |-> now]

Store(value, now) == [present |-> TRUE, value |-> value, stored |-> now]

ClearNothing(entry) == entry

Clear(entry) == NoEntry

----------------------------------------------------------------------------
(* The script body after line 63 *)

Raise(what) == [k |-> "raise", s |-> what, n |-> 0]

NA == Str("N/A")

Sum(cells) ==
  LET RECURSIVE S(_)
      S(i) == IF i = 0 THEN 0 ELSE cells[i].n + S(i - 1)
  IN S(Len(cells))

MeanMetric(d, c) ==
  IF ~HasCol(d, c) THEN NA
  ELSE LET col == Column(d, c)
       IN IF \E i \in 1..Len(col) : col[i].k # "num" THEN Raise("TypeError")
          ELSE Num(Sum(col) \div Len(col))

LastMetric(d, c) ==
  IF ~HasCol(d, c) THEN NA
  ELSE LET last == d.rows[Len(d.rows)][c]
       IN IF last.k # "num" THEN Raise("ValueError") ELSE last

IsNumericCol(d, c) == \A i \in 1..Len(d.rows) : d.rows[i][c].k = "num"

AvailableColumns(d) ==
  SelectSeq(d.cols, LAMBDA c : c # "FechaHora" /\ IsNumericCol(d, c))

DefaultSelection(av) == IF Len(av) >= 2 THEN SubSeq(av, 1, 2) ELSE av

Selections(av) == {DefaultSelection(av), <<>>}

BlankView == [elements |-> {}, metrics |-> <<>>, exc |-> "none"]

ChartElements(d, sel) ==
  IF ~HasCol(d, "FechaHora") THEN {}
  ELSE {"subheader"} \cup
       (IF Len(AvailableColumns(d)) = 0 THEN {"warning"}
        ELSE {"multiselect"} \cup (IF Len(sel) > 0 THEN {"chart"} ELSE {}))

MainView(d, sel) ==
  LET m1 == MeanMetric(d, "Voltaje")
      m2 == LastMetric(d, "Temperatura")
      m3 == LastMetric(d, "Humedad")
      head == {"success", "total"}
  IN IF m1.k = "raise"
     THEN [elements |-> head, metrics |-> <<>>, exc |-> m1.s]
     ELSE IF m2.k = "raise"
     THEN [elements |-> head \cup {"voltaje"}, metrics |-> <<m1>>, exc |-> m2.s]
     ELSE IF m3.k = "raise"
     THEN [elements |-> head \cup {"voltaje", "temperatura"},
           metrics |-> <<m1, m2>>, exc |-> m3.s]
     ELSE [elements |-> head \cup {"voltaje", "temperatura", "humedad", "columns"}
                        \cup ChartElements(d, sel) \cup {"structure", "tail"},
           metrics |-> <<m1, m2, m3>>, exc |-> "none"]

FallbackView == [elements |-> {"error", "example"}, metrics |-> <<>>, exc |-> "none"]

RenderView(d, sel) == IF ~IsEmpty(d) THEN MainView(d, sel) ELSE FallbackView

----------------------------------------------------------------------------
(* Actions *)

Init ==
  /\ clock = 0
  /\ cache = NoEntry
  /\ pc = "idle"
  /\ cause = "start"
  /\ df = Unbound
  /\ fetched = FALSE
  /\ sheet = NoSheet
  /\ err = "none"
  /\ view = BlankView
  /\ buttonShown = FALSE

Tick ==
  /\ pc = "idle"
  /\ clock + TickStep <= MaxClock
  /\ clock' = clock + TickStep
  /\ UNCHANGED <<cache, pc, cause, df, fetched, sheet, err, view, buttonShown>>

BeginRun(why) ==
  /\ pc' = "load"
  /\ cause' = why
  /\ df' = Unbound
  /\ fetched' = FALSE
  /\ sheet' = NoSheet
  /\ err' = "none"
  /\ view' = BlankView

StartRun ==
  /\ pc = "idle"
  /\ BeginRun("start")
  /\ UNCHANGED <<clock, cache, buttonShown>>

PressButton ==
  /\ pc = "idle"
  /\ buttonShown
  /\ BeginRun("press")
  /\ UNCHANGED <<clock, cache, buttonShown>>

CallResult(res) ==
  IF res.exc # "none"
  THEN /\ pc' = "idle"
       /\ view' = [elements |-> {}, metrics |-> <<>>, exc |-> res.exc]
       /\ buttonShown' = FALSE
       /\ UNCHANGED <<cache, df>>
  ELSE /\ pc' = "render"
       /\ df' = res.value
       /\ cache' = Store(res.value, clock)
       /\ UNCHANGED <<view, buttonShown>>

LoadData ==
  /\ pc = "load"
  /\ IF Hit(cache, clock)
     THEN /\ df' = cache.value
          /\ fetched' = FALSE
          /\ pc' = "render"
          /\ UNCHANGED <<cache, sheet, err, view, buttonShown>>
     ELSE \E a \in Attempts :
            LET res == load_data(a.sh, a.failAt, clock)
            IN /\ fetched' = TRUE
               /\ sheet' = res.read
               /\ err' = res.err
               /\ CallResult(res)
  /\ UNCHANGED <<clock, cause>>

Render ==
  /\ pc = "render"
  /\ \E sel \in Selections(AvailableColumns(df)) :
       view' = RenderView(df, sel)
  /\ IF view'.exc # "none"
     THEN pc' = "idle" /\ buttonShown' = FALSE
     ELSE pc' = "sidebar" /\ UNCHANGED buttonShown
  /\ UNCHANGED <<clock, cache, cause, df, fetched, sheet, err>>

Sidebar ==
  /\ pc = "sidebar"
  /\ buttonShown' = TRUE
  /\ IF cause = "press"
     THEN /\ cache' = Clear(cache)
          /\ BeginRun("rerun")
     ELSE /\ pc' = "idle"
          /\ view' = [view EXCEPT !.elements = @ \cup {"info", "button", "status"}]
          /\ UNCHANGED <<cache, cause, df, fetched, sheet, err>>
  /\ UNCHANGED clock

Next == Tick \/ StartRun \/ PressButton \/ LoadData \/ Render \/ Sidebar

Spec == Init /\ [][Next]_vars

----------------------------------------------------------------------------
(* Claims *)

Rendered == pc \in {"sidebar", "idle"} /\ df # Unbound

Loaded == pc = "render" /\ fetched /\ err = "none"

NoTimeColumn == Range(sheet.header) \cap TimeCols = {}

FechaOf(i) == df.rows[i]["FechaHora"]

\* C1: after load_data() returns, every row of the dataset has a non-null
\* value in the resolved timestamp column FechaHora, also when the sheet's
\* timestamp cell is empty.
C1_EveryRowHasTimestamp ==
  (pc = "render") =>
    \A i \in 1..Len(df.rows) : HasCol(df, "FechaHora") /\ FechaOf(i).k = "ts"

\* C2: a failure of any step of load_data() is caught inside it: no exception
\* reaches the script, and the dataset it returns is the empty one, never a
\* partially built frame.
C2_FailureYieldsEmpty ==
  (err # "none") =>
    /\ pc \in {"render", "sidebar", "idle"}
    /\ df = EmptyDF
    /\ Len(df.rows) = 0
    /\ view.exc = "none"

C2_Witness == pc = "render" /\ fetched /\ err = "to_datetime" /\ Len(sheet.rows) > 0

\* C3: while an entry younger than 300 seconds is in the memo and no refresh
\* is being handled, no step replaces the entry, and a load_data() call
\* returns the entry's dataset without executing the body.
C3_CachedWithinTTL ==
  [][(cache.present /\ clock - cache.stored < 300
      /\ ~(pc = "sidebar" /\ cause = "press"))
     => (cache' = cache
         /\ (pc = "load" => (df' = cache.value /\ ~fetched')))]_vars

C3_Witness ==
  /\ pc = "render" /\ ~fetched
  /\ cache.present /\ clock > cache.stored /\ clock - cache.stored < 300
  /\ Len(df.rows) > 0 /\ df = cache.value

C5_EmptyShowsFallback ==
  Rendered =>
    IF Len(df.rows) = 0
    THEN /\ {"error", "example"} \subseteq view.elements
         /\ view.elements \cap {"success", "total", "voltaje", "temperatura",
                                "humedad", "subheader", "multiselect", "chart",
                                "warning", "structure", "tail"} = {}
    ELSE view.elements \cap {"error", "example"} = {}

C5_Witness ==
  /\ pc = "sidebar" /\ fetched /\ err = "none"
  /\ Len(df.rows) = 0 /\ HasCol(df, "FechaHora")
  /\ "error" \in view.elements

\* C6: for a sheet of N rows with neither a FechaHora nor a Timestamp column
\* the dataset has N rows, each with a synthesized timestamp, consecutive
\* rows exactly 10 seconds apart and strictly increasing.
C6_SynthesizedSpacing ==
  (Loaded /\ NoTimeColumn) =>
    /\ HasCol(df, "FechaHora")
    /\ Len(df.rows) = Len(sheet.rows)
    /\ \A i \in 1..Len(df.rows) : FechaOf(i).k = "ts"
    /\ \A i \in 1..(Len(df.rows) - 1) :
         /\ FechaOf(i + 1).n - FechaOf(i).n = 10
         /\ FechaOf(i + 1).n > FechaOf(i).n

C6_Witness == Loaded /\ NoTimeColumn /\ Len(df.rows) >= 2

\* C7 as stated: the last synthesized timestamp equals the time of the fetch.
C7_LastIsFetchTime ==
  (Loaded /\ NoTimeColumn /\ Len(df.rows) >= 1) =>
    FechaOf(Len(df.rows)).n = clock

\* C7 amended: the first synthesized timestamp is the fetch time minus one
\* day, and the last is the fetch time minus one day plus 10 * (N - 1)
\* seconds.
C7_FirstIsDayBeforeFetch ==
  (Loaded /\ NoTimeColumn /\ Len(df.rows) >= 1) =>
    /\ FechaOf(1).n = clock - 86400
    /\ FechaOf(Len(df.rows)).n = clock - 86400 + 10 * (Len(df.rows) - 1)

C7_Witness == Loaded /\ NoTimeColumn /\ Len(df.rows) >= 1 /\ clock > 0

\* C8: no run of the script raises, whatever the cells of the sensor columns
\* hold.
C8_RunNeverRaises == view.exc = "none"

\* C9: row by row, FechaHora of the dataset is the parsed FechaHora cell if
\* the records have one (a Timestamp cell is then kept as fetched), else the
\* parsed Timestamp cell if the records have one, else a synthesized instant;
\* the dataset always has a FechaHora column.
C9_ResolutionOrder ==
  Loaded =>
    /\ HasCol(df, "FechaHora")
    /\ Len(df.rows) = Len(sheet.rows)
    /\ \A i \in 1..Len(sheet.rows) :
         LET rec == sheet.rows[i]
         IN IF "FechaHora" \in DOMAIN rec
            THEN /\ FechaOf(i) = ParseCell(rec["FechaHora"])
                 /\ ("Timestamp" \in DOMAIN rec
                       => /\ HasCol(df, "Timestamp")
                          /\ df.rows[i]["Timestamp"] = rec["Timestamp"])
            ELSE IF "Timestamp" \in DOMAIN rec
            THEN FechaOf(i) = ParseCell(rec["Timestamp"])
            ELSE FechaOf(i) = Ts(clock - 86400 + 10 * (i - 1))

C9_Witness ==
  /\ Loaded /\ Len(df.rows) >= 1
  /\ TimeCols \subseteq Range(sheet.header)
  /\ FechaOf(1).k = "ts"

\* C10: a failed load is stored in the memo like a successful one; while the
\* stored empty dataset is younger than 300 seconds a load_data() call
\* returns it without executing the body, and a call that finds no entry or
\* an expired one executes the body.
C10_FailureIsMemoized ==
  [][/\ (pc = "load" /\ err' # "none")
          => (cache' = [present |-> TRUE, value |-> EmptyDF, stored |-> clock]
              /\ df' = EmptyDF)
     /\ (pc = "load" /\ cache.present /\ cache.value = EmptyDF
           /\ clock - cache.stored < 300)
          => (df' = EmptyDF /\ ~fetched' /\ cache' = cache)
     /\ (pc = "load" /\ (~cache.present \/ clock - cache.stored >= 300))
          => fetched']_vars

C10_Witness ==
  /\ pc = "sidebar" /\ ~fetched
  /\ cache.present /\ cache.value = EmptyDF /\ clock > cache.stored
  /\ df = EmptyDF /\ "error" \in view.elements

====
